---- MODULE Spec2Model ----
(***************************************************************************)
(* Model of the multi-host update-state synchronization engine of the      *)
(* Cockpit machines dashboard (src/src/dashboard.tsx, with the results of  *)
(* the calls into src/src/machines-api.ts).                                *)
(*                                                                         *)
(* Execution model: JavaScript runs one synchronous segment at a time.     *)
(* One action of this module is one segment: a user event or the arrival   *)
(* of a remote result, run up to the next await of every continuation it   *)
(* resumes, followed by the render React schedules for the batched state   *)
(* updates and, when the `machines` array was replaced, by the             *)
(* auto-refresh effect that depends on it.                                 *)
(*                                                                         *)
(* Abstractions: label, user, color and avatar of a machine are left out;  *)
(* address = key; timestamps are "date"; alert titles are left out (an     *)
(* alert is its variant); the securityOnly flag is left out (it only       *)
(* selects the flags passed to UpdatePackages).  A property that is absent *)
(* and a property that is undefined are both the string "undefined".       *)
(***************************************************************************)
EXTENDS Integers, Sequences, FiniteSets, Bags, TLC

\* ---------------------------------------------------------------- bounds
\* Largest number of package events a check reports.
MaxPackages == 1
\* Largest number of single-machine operations (Check, Update) running at once.
MaxSingleTasks == 1
\* Largest number of bulk operations running at once.
MaxBulkTasks == 1
\* Largest number of remote calls outstanding at once: the checks of the
\* auto-refresh effect, the call of loadMachines and those of the operations.
MaxInFlight == 3
\* Largest number of roster changes the registry watcher delivers.
MaxRosterChanges == 2
\* The same number where the connectivity of one machine goes back and forth.
MaxFlaps == 3

\* ------------------------------------------------------------- constants
\* Hosts the registry can name, in label order (label = key here).
KeyOrder == <<"10.0.0.5", "localhost">>

Keys == {KeyOrder[i] : i \in DOMAIN KeyOrder}

\* States a registry record can carry ("undefined": the record has no state).
RegStates == {"undefined", "connected", "failed"}

\* What checkMachineConnection resolves to: a string.
ProbeResults == {"connected", "failed"}

\* Percentages a Percentage / ItemProgress signal can carry (101: unknown).
Percents == {50, 101}

NoProgress == [present |-> FALSE, percent |-> 0, status |-> ""]

\* What installUpdatesOnHost resolves to (it never rejects).
InstallResults ==
    { [success |-> TRUE, rebootRequired |-> FALSE, error |-> "undefined"],
      [success |-> TRUE, rebootRequired |-> TRUE, error |-> "undefined"],
      [success |-> FALSE, rebootRequired |-> FALSE, error |-> "remote error"] }

\* What getUpdatesForHost resolves to (it never rejects): the counts of a
\* finished enumeration, or zero counts and an error message.
CheckResults ==
    { [total |-> t, security |-> s, loading |-> FALSE, error |-> "null",
       lastChecked |-> "date"] : t \in 0..MaxPackages, s \in 0..MaxPackages }
    \cup
    { [total |-> 0, security |-> 0, loading |-> FALSE, error |-> e,
       lastChecked |-> "date"] : e \in {"PackageKit not available", "remote error"} }

CheckOutcomes == {u \in CheckResults : u.security <= u.total}

\* The results the checks of the specifications below draw from: the counts
\* of an enumeration without security updates (security is only displayed).
CountOutcomes == {u \in CheckOutcomes : u.security = 0 /\ u.error = "null"}

\* Rosters getMachinesList can return: the visible hosts of the registry in
\* label order, each with the state of its record.
RECURSIVE SubRosters(_)
SubRosters(i) ==
    IF i > Len(KeyOrder) THEN { << >> }
    ELSE LET rest == SubRosters(i + 1)
         IN  rest \cup
             { <<[key |-> KeyOrder[i], state |-> s]>> \o r :
                   s \in RegStates, r \in rest }

Rosters == SubRosters(1) \ { << >> }

\* The rosters of a registry all of whose machines are connected.
ConnectedRosters ==
    {r \in Rosters : \A i \in DOMAIN r : r[i].state = "connected"}

\* The rosters of a registry that always holds the local machine, connected.
HomeRosters ==
    {r \in Rosters : r[Len(r)] = [key |-> "localhost", state |-> "connected"]}

VARIABLES
    machines,          \* useState machines: sequence of MachineWithUpdates
    selectedMachines,  \* useState selectedMachines: set of keys
    bulkUpdating,      \* useState bulkUpdating
    alerts,            \* useState alerts: the variants on display
    load,              \* the loadMachines() call of the mount effect
    tasks,             \* bag of running refresh/update/bulk calls
    checks,            \* per key: outstanding checks of the auto-refresh effect
    unhandled,         \* a promise of a handler was rejected and nobody caught it
    rosterChanges,     \* number of roster changes the watcher delivered so far
    listing,           \* machines-api: the registry value and what getMachinesList made of it
    transaction,       \* machines-api: one PackageKit call and the transaction it drives
    probe              \* machines-api: one checkMachineConnection call and its channel

\* The state of the dashboard component.
dashboard == <<machines, selectedMachines, bulkUpdating, alerts, load, tasks,
               checks, unhandled, rosterChanges>>

vars == <<machines, selectedMachines, bulkUpdating, alerts, load, tasks, checks,
          unhandled, rosterChanges, listing, transaction, probe>>

\* --------------------------------------------------------------- helpers
Range(ms) == {ms[i] : i \in DOMAIN ms}

\* f applied to every record, whatever its key
MapEvery(ms, k, f) == [i \in DOMAIN ms |-> f[ms[i]]]

\* prev.map(m => m.key === host ? f(m) : m), f a function on the records
\* a map that rewrites the records of the other keys
MapOthers(ms, k, f) ==
    [i \in DOMAIN ms |-> IF ms[i].key # k THEN f[ms[i]] ELSE ms[i]]

MapKey(ms, k, f) ==
    [i \in DOMAIN ms |-> IF ms[i].key = k THEN f[ms[i]] ELSE ms[i]]

\* list.map(m => m.key)
KeysIn(ms) == [i \in DOMAIN ms |-> ms[i].key]

\* the state each machine of a list has in the captured `machines`
StatesIn(ms) == [i \in DOMAIN ms |-> ms[i].state]

HasKey(ms, k) == \E i \in DOMAIN ms : ms[i].key = k

\* machines.find(m => m.key === k), for a key the roster holds
Find(ms, k) == ms[CHOOSE i \in DOMAIN ms :
                     ms[i].key = k /\ \A j \in DOMAIN ms : ms[j].key = k => i <= j]

\* machines.reduce((sum, m) => sum + (m.updates.total || 0), 0)
RECURSIVE SumTotal(_)
SumTotal(ms) ==
    IF ms = << >> THEN 0 ELSE Head(ms).total + SumTotal(Tail(ms))

SetUpdates(m, u) ==
    [m EXCEPT !.total = u.total, !.security = u.security, !.loading = u.loading,
              !.error = u.error, !.lastChecked = u.lastChecked]

\* const { state, hostname } = await checkMachineConnection(...): the call
\* resolves to a string, and a string has no property `state`.
DestructuredState(probeResult) == "undefined"

\* ------------------------------------------- per-machine record updates
\* loadMachines: the record a roster entry is seeded with
InitialMachine(m) ==
    [key |-> m.key,
     state |-> IF m.state = "undefined" THEN "unknown" ELSE m.state,
     total |-> 0, security |-> 0, loading |-> TRUE, error |-> "null",
     lastChecked |-> "null", updating |-> FALSE, updateProgress |-> NoProgress]

\* loadMachines: the machine is not connected
LoadNotConnected(m, effectiveState) ==
    [m EXCEPT !.total = 0, !.security = 0, !.loading = FALSE,
              !.error = IF effectiveState = "failed"
                        THEN "Machine not connected" ELSE "null",
              !.lastChecked = "null"]

\* refreshMachine: first, set to connecting/loading state
RefreshBegin(m) ==
    [m EXCEPT !.state = IF m.state = "connected" THEN "connected" ELSE "connecting",
              !.loading = TRUE]

\* refreshMachine: the probe says the machine is not connected
RefreshNotConnected(m) ==
    [m EXCEPT !.total = 0, !.security = 0, !.loading = FALSE,
              !.error = "Machine not connected", !.lastChecked = "date"]

\* refreshMachine: the check returned
RefreshResult(m, updates) ==
    SetUpdates([m EXCEPT !.state = "connected"], updates)

\* refreshMachine: catch
RefreshCatch(m, message) ==
    [m EXCEPT !.loading = FALSE, !.error = message]

\* updateMachine: start
UpdateBegin(m) ==
    [m EXCEPT !.updating = TRUE,
              !.updateProgress = [present |-> TRUE, percent |-> 0,
                                  status |-> "Starting update..."]]

\* updateMachine: the onProgress callback
UpdateProgress(m, percent, status) ==
    [m EXCEPT !.updateProgress = [present |-> TRUE, percent |-> percent,
                                  status |-> status]]

\* a finally block that clears the progress only
UpdateFinallyKeepsUpdating(m) == [m EXCEPT !.updateProgress = NoProgress]

\* updateMachine: finally
UpdateFinally(m) ==
    [m EXCEPT !.updating = FALSE, !.updateProgress = NoProgress]

\* installUpdatesOnHost: a progress signal reaches onProgress
ProgressDelivered(percent) == percent <= 100

\* ------------------------------------------------------- roster changes
\* subscribeMachines callback: the merge of a new roster into the state
KeysOf(ms) == {ms[i].key : i \in DOMAIN ms}

\* a merge that seeds every machine afresh
MergeReseeds(prev, newM) ==
    [key |-> newM.key, state |-> newM.state,
     total |-> 0, security |-> 0, loading |-> (newM.state = "connected"),
     error |-> "null", lastChecked |-> "null",
     updating |-> FALSE, updateProgress |-> NoProgress]

MergeMachine(prev, newM) ==
    IF HasKey(prev, newM.key)
    THEN LET existing == Find(prev, newM.key)
             needsRefresh == existing.state # newM.state /\ newM.state = "connected"
         IN  [existing EXCEPT
                 !.state = IF newM.state = "undefined" THEN @ ELSE newM.state,
                 !.loading = IF needsRefresh THEN TRUE ELSE @]
    ELSE [key |-> newM.key, state |-> newM.state,
          total |-> 0, security |-> 0, loading |-> (newM.state = "connected"),
          error |-> "null", lastChecked |-> "null",
          updating |-> FALSE, updateProgress |-> NoProgress]

RosterMerges(prev, newList) ==
    LET keysChanged == KeysOf(prev) # KeysOf(newList)
        stateChanged ==
            \E i \in DOMAIN newList :
                HasKey(prev, newList[i].key)
                /\ Find(prev, newList[i].key).state # newList[i].state
    IN  keysChanged \/ stateChanged

Merge(prev, newList) ==
    IF RosterMerges(prev, newList)
    THEN [i \in DOMAIN newList |-> MergeMachine(prev, newList[i])]
    ELSE prev

\* ------------------------------------------------- auto-refresh effect
\* a filter that takes updating machines too
NeedsRefreshWhileUpdating(m) == m.state = "connected" /\ m.loading

NeedsRefresh(m) == m.state = "connected" /\ m.loading /\ ~m.updating

\* one getUpdatesForHost per machine needing refresh, on top of those outstanding
EffectChecks(ms, cs) ==
    [k \in Keys |-> cs[k] + Cardinality({i \in DOMAIN ms :
                                           ms[i].key = k /\ NeedsRefresh(ms[i])})]

\* ---------------------------------------------------------- loadMachines
\* The loop of loadMachines up to its next await.
\* `list` holds the machines the loop has not finished: its head is the
\* machine being processed.
RECURSIVE LoadAdvance(_, _)
LoadAdvance(ms, list) ==
    IF list = << >> THEN [ms |-> ms, list |-> list, pc |-> "done"]
    ELSE IF Head(list).state \in {"undefined", "unknown"}
    THEN [ms |-> MapKey(ms, Head(list).key,
                        [m \in Range(ms) |-> [m EXCEPT !.state = "connecting"]]),
          list |-> list, pc |-> "probe"]
    ELSE IF Head(list).state = "connected"
    THEN [ms |-> ms, list |-> list, pc |-> "check"]
    ELSE LoadAdvance(MapKey(ms, Head(list).key,
                            [m \in Range(ms) |->
                                LoadNotConnected(m, Head(list).state)]),
                     Tail(list))

\* loadMachines after the probe of the machine at the head resolved
LoadProbed(ms, list, probeResult) ==
    LET effectiveState == DestructuredState(probeResult)
        ms1 == MapKey(ms, Head(list).key,
                      [m \in Range(ms) |-> [m EXCEPT !.state = effectiveState]])
    IN  IF effectiveState = "connected"
        THEN [ms |-> ms1, list |-> list, pc |-> "check"]
        ELSE LoadAdvance(MapKey(ms1, Head(list).key,
                                [m \in Range(ms1) |->
                                    LoadNotConnected(m, effectiveState)]),
                         Tail(list))

\* loadMachines after the check of the machine at the head resolved
LoadChecked(ms, list, updates) ==
    LoadAdvance(MapKey(ms, Head(list).key,
                       [m \in Range(ms) |-> SetUpdates(m, updates)]),
                Tail(list))

\* ------------------------------------------------------------------ Init
ZeroChecks == [k \in Keys |-> 0]

\* The state after the mount effect ran (loadMachines up to its first await,
\* then the initial call of the subscribeMachines callback) and the first
\* render with machines ran the auto-refresh effect.
Mounted(roster) ==
    LET initialMachines == [i \in DOMAIN roster |-> InitialMachine(roster[i])]
        l == LoadAdvance(initialMachines, roster)
        ms == Merge(l.ms, roster)
    IN  /\ machines = ms
        /\ load = [list |-> l.list, pc |-> l.pc]
        /\ checks = EffectChecks(ms, ZeroChecks)
        /\ selectedMachines = {}
        /\ bulkUpdating = FALSE
        /\ alerts = {}
        /\ tasks = EmptyBag
        /\ unhandled = FALSE
        /\ rosterChanges = 0
        /\ listing = "idle" /\ transaction = "idle" /\ probe = "idle"

Init == \E roster \in ConnectedRosters : Mounted(roster)

InitRoster == \E roster \in HomeRosters : Mounted(roster)

\* ----------------------------------------------------------------- tasks
\* A running call started by a user action:
\*   kind   "refresh" | "update" | "refreshAll" | "updateAll" | "updateSelected"
\*   list   the keys its loop visits (one key for refresh and update)
\*   snap   the state each of them has in the `machines` the closure captured
\*   idx    the position of the loop
\*   pc     the remote call the per-machine operation awaits:
\*          "probe" | "cache" | "check" | "install"
\*   calls  the keys the per-machine operation was called for, in call order
UpdateKinds == {"update", "updateAll", "updateSelected"}

BulkKinds == {"refreshAll", "updateAll", "updateSelected"}

SingleKinds == {"refresh", "update"}

NewTask(kind, list, snap) ==
    [kind |-> kind, list |-> list, snap |-> snap, idx |-> 0, pc |-> "start",
     calls |-> << >>]

NoTask == NewTask("none", << >>, << >>)

Running == BagToSet(tasks)

CurrentKey(t) == t.list[t.idx]

\* The values a segment works on; Commit makes them the next state.
Cur ==
    [ms |-> machines, rendered |-> FALSE, alerts |-> alerts, tasks |-> tasks,
     sel |-> selectedMachines, bulk |-> bulkUpdating, unhandled |-> unhandled,
     merged |-> FALSE]

Without(t) == [Cur EXCEPT !.tasks = tasks (-) SetToBag({t})]

SetMachines(r, k, f) ==
    [r EXCEPT !.ms = MapKey(r.ms, k, f), !.rendered = TRUE]

AddAlert(r, variant) == [r EXCEPT !.alerts = @ \cup {variant}]

\* refreshMachine(k) up to its first await
RefreshStart(r, t) ==
    LET k == CurrentKey(t)
        probes == t.snap[t.idx] # "connected"
    IN  [SetMachines(r, k, [m \in Range(r.ms) |-> RefreshBegin(m)]) EXCEPT
            !.tasks = @ (+) SetToBag({[t EXCEPT !.pc = IF probes THEN "probe"
                                                      ELSE "cache"]})]

\* updateMachine(k) up to its first await
UpdateStart(r, t) ==
    [SetMachines(r, CurrentKey(t), [m \in Range(r.ms) |-> UpdateBegin(m)]) EXCEPT
        !.tasks = @ (+) SetToBag({[t EXCEPT !.pc = "install"]})]

\* the body of the loop of a bulk operation, or the single call of a handler
CallOperation(r, t) ==
    LET t1 == [t EXCEPT !.calls = Append(@, CurrentKey(t))]
    IN  IF t.kind \in UpdateKinds THEN UpdateStart(r, t1) ELSE RefreshStart(r, t1)

\* a bulk operation that ends without a statement after its loop
CompleteKeepsBulk(r, t) == r

\* the statements after the loop
Complete(r, t) ==
    CASE t.kind = "updateAll" -> [r EXCEPT !.bulk = FALSE]
      [] t.kind = "updateSelected" -> [r EXCEPT !.bulk = FALSE, !.sel = {}]
      [] OTHER -> r

\* a loop that steps over a machine
SkipIndex(t) == t.idx + 2

\* for (const machine of list) { await operation(machine.key) }
NextIndex(t) == t.idx + 1

\* The caller of the per-machine operation resumes after it returned.
Resume(r, t) ==
    IF NextIndex(t) <= Len(t.list)
    THEN CallOperation(r, [t EXCEPT !.idx = NextIndex(t)])
    ELSE Complete(r, t)

\* The per-machine operation rejected: the caller's await throws, no handler
\* of the bulk operations or of the buttons catches it.
Abort(r, t) == [r EXCEPT !.unhandled = TRUE]

\* try { ... } catch of refreshMachine and of updateMachine: whether an error
\* thrown inside the try block is caught there
RefreshMachineRethrows == FALSE

RefreshMachineCatches == TRUE

\* updateMachine leaves: finally, then back to the caller
UpdateCleared(r, t) ==
    SetMachines(r, CurrentKey(t), [m \in Range(r.ms) |-> UpdateFinally(m)])

UpdateReturns(r, t) == Resume(UpdateCleared(r, t), t)

\* an error inside the try block of updateMachine
UpdateFails(r, t) ==
    UpdateReturns(AddAlert(r, "danger"), t)

\* refreshMachine returned to its caller
RefreshReturns(r, t) ==
    IF t.kind \in UpdateKinds THEN UpdateReturns(r, t) ELSE Resume(r, t)

\* an error inside the try block of refreshMachine
RefreshFails(r, t, message) ==
    IF RefreshMachineCatches
    THEN RefreshReturns(
             AddAlert(SetMachines(r, CurrentKey(t),
                                  [m \in Range(r.ms) |->
                                      RefreshCatch(m, message)]), "danger"),
             t)
    ELSE IF t.kind \in UpdateKinds THEN UpdateFails(r, t) ELSE Abort(r, t)

\* refreshMachine after the probe resolved
RefreshProbed(r, t, probeResult) ==
    LET k == CurrentKey(t)
        connectionState == DestructuredState(probeResult)
        r1 == SetMachines(r, k, [m \in Range(r.ms) |->
                                    [m EXCEPT !.state = connectionState]])
    IN  IF connectionState # "connected"
        THEN RefreshReturns(
                 SetMachines(r1, k, [m \in Range(r1.ms) |-> RefreshNotConnected(m)]),
                 t)
        ELSE [r1 EXCEPT !.tasks = @ (+) SetToBag({[t EXCEPT !.pc = "cache"]})]

\* the numbers the bounds limit
RECURSIVE SumChecks(_, _)
SumChecks(cs, n) == IF n = 0 THEN 0 ELSE cs[KeyOrder[n]] + SumChecks(cs, n - 1)

InFlight(bag, l, cs) ==
    BagCardinality(bag) + (IF l.pc = "done" THEN 0 ELSE 1)
    + SumChecks(cs, Len(KeyOrder))

TasksOf(bag, kinds) ==
    BagCardinality([t \in {u \in BagToSet(bag) : u.kind \in kinds}
                       |-> CopiesIn(t, bag)])

\* the render of the batched updates and, when `machines` was replaced, the
\* auto-refresh effect
Commit(r, newLoad, cs) ==
    /\ machines' = r.ms
    /\ checks' = IF r.rendered THEN EffectChecks(r.ms, cs) ELSE cs
    /\ InFlight(r.tasks, newLoad, checks') <= MaxInFlight
    /\ TasksOf(r.tasks, BulkKinds) <= MaxBulkTasks
    /\ TasksOf(r.tasks, SingleKinds) <= MaxSingleTasks
    /\ tasks' = r.tasks
    /\ alerts' = r.alerts
    /\ selectedMachines' = r.sel
    /\ bulkUpdating' = r.bulk
    /\ unhandled' = r.unhandled
    /\ load' = newLoad
    /\ rosterChanges' = rosterChanges + (IF r.merged THEN 1 ELSE 0)
    /\ rosterChanges' <= MaxFlaps
    /\ UNCHANGED <<listing, transaction, probe>>

\* --------------------------------------------------------- user actions
Connected(m) == m.state = "connected"

\* the Check button of a card: onRefresh(machine.key)
Refresh(k) ==
    /\ HasKey(machines, k)
    /\ LET m == Find(machines, k)
       IN  /\ Connected(m) /\ ~m.loading /\ ~m.updating
           /\ Commit(Resume(Cur, NewTask("refresh", <<k>>, <<m.state>>)),
                     load, checks)

\* the Update all / Security only button of a card: onUpdate(machine.key)
Update(k) ==
    /\ HasKey(machines, k)
    /\ LET m == Find(machines, k)
       IN  /\ m.total > 0 /\ ~m.updating /\ Connected(m)
           /\ Commit(Resume(Cur, NewTask("update", <<k>>, <<m.state>>)),
                     load, checks)

\* the Refresh all button of the toolbar
RefreshAll ==
    /\ ~bulkUpdating
    /\ Commit(Resume(Cur, NewTask("refreshAll",
                                  KeysIn(SelectSeq(machines, Connected)),
                                  StatesIn(SelectSeq(machines, Connected)))),
              load, checks)

\* updateAll filtering like updateSelected does, without the test of updating
UpdatesOnAnyMachine(m) == Connected(m) /\ m.total > 0

\* updateAll: the machines it installs on
MachinesWithUpdates(m) == Connected(m) /\ m.total > 0 /\ ~m.updating

\* an Update all button that is enabled during a bulk update
UpdateAllAnyTime ==
    /\ SumTotal(machines) > 0
    /\ Commit(Resume([Cur EXCEPT !.bulk = TRUE],
                     NewTask("updateAll",
                             KeysIn(SelectSeq(machines, MachinesWithUpdates)),
                             StatesIn(SelectSeq(machines, MachinesWithUpdates)))),
              load, checks)

\* the Update all (n) / Security only (n) button of the toolbar
UpdateAll ==
    /\ SumTotal(machines) > 0
    /\ ~bulkUpdating
    /\ Commit(Resume([Cur EXCEPT !.bulk = TRUE],
                     NewTask("updateAll",
                             KeysIn(SelectSeq(machines, MachinesWithUpdates)),
                             StatesIn(SelectSeq(machines, MachinesWithUpdates)))),
              load, checks)

\* updateSelected: selectedList, and the test of its loop
SelectedWithUpdates(m) == m.total > 0

\* the Update selected (n) button of the toolbar
UpdateSelected ==
    /\ selectedMachines # {}
    /\ SumTotal(SelectSeq(machines, LAMBDA m : m.key \in selectedMachines)) > 0
    /\ ~bulkUpdating
    /\ LET selectedList == SelectSeq(machines,
                                   LAMBDA m : m.key \in selectedMachines
                                              /\ Connected(m))
       IN  Commit(Resume([Cur EXCEPT !.bulk = TRUE],
                         NewTask("updateSelected",
                                 KeysIn(SelectSeq(selectedList, SelectedWithUpdates)),
                                 StatesIn(SelectSeq(selectedList, SelectedWithUpdates)))),
                  load, checks)

\* the checkbox of a card (the card is disabled unless connected and not updating)
HandleSelect(k, selected) ==
    /\ HasKey(machines, k)
    /\ LET m == Find(machines, k) IN Connected(m) /\ ~m.updating
    /\ Commit([Cur EXCEPT !.sel = IF selected THEN @ \cup {k} ELSE @ \ {k}],
              load, checks)

\* the Select all checkbox of the toolbar
SelectAll(selected) ==
    /\ ~bulkUpdating
    /\ Commit([Cur EXCEPT !.sel =
                  IF selected
                  THEN {machines[i].key : i \in
                          {j \in DOMAIN machines :
                             Connected(machines[j]) /\ ~machines[j].updating}}
                  ELSE {}],
              load, checks)

\* ------------------------------------------------------ registry change
\* the subscribeMachines callback runs with a roster
RosterChange(newList) ==
    Commit([Cur EXCEPT !.ms = Merge(machines, newList),
                       !.rendered = RosterMerges(machines, newList),
                       !.merged = RosterMerges(machines, newList)],
           load, checks)

\* -------------------------------------------------------- remote results
\* a connectivity probe resolves: of loadMachines, or of a refreshMachine
ProbeReturns(probeResult) ==
    \E src \in {[ofLoad |-> TRUE, task |-> NoTask] :
                  x \in {y \in {load.pc} : y = "probe"}}
              \cup {[ofLoad |-> FALSE, task |-> t] :
                       t \in {u \in Running : u.pc = "probe"}} :
        IF src.ofLoad
        THEN LET l == LoadProbed(machines, load.list, probeResult)
             IN  Commit([Cur EXCEPT !.ms = l.ms, !.rendered = TRUE],
                        [list |-> l.list, pc |-> l.pc], checks)
        ELSE Commit(RefreshProbed(Without(src.task), src.task, probeResult),
                    load, checks)

\* the check of loadMachines resolves
LoadCheckReturns(updates) ==
    /\ load.pc = "check"
    /\ LET l == LoadChecked(machines, load.list, updates)
       IN  Commit([Cur EXCEPT !.ms = l.ms, !.rendered = TRUE],
                  [list |-> l.list, pc |-> l.pc], checks)

\* a check of the auto-refresh effect resolves
EffectCheckReturns(k, updates) ==
    /\ checks[k] > 0
    /\ Commit(SetMachines(Cur, k, [m \in Range(machines) |-> SetUpdates(m, updates)]),
              load, [checks EXCEPT ![k] = @ - 1])

\* refreshPackageCache of a refreshMachine settles
CacheReturns(t, ok) ==
    /\ t \in Running /\ t.pc = "cache"
    /\ IF ok
       THEN Commit([Without(t) EXCEPT
                       !.tasks = @ (+) SetToBag({[t EXCEPT !.pc = "check"]})],
                   load, checks)
       ELSE Commit(RefreshFails(Without(t), t, "remote error"), load, checks)

\* getUpdatesForHost of a refreshMachine resolves
CheckReturns(t, updates) ==
    /\ t \in Running /\ t.pc = "check"
    /\ Commit(RefreshReturns(
                  SetMachines(Without(t), CurrentKey(t),
                              [m \in Range(machines) |-> RefreshResult(m, updates)]),
                  t),
              load, checks)

\* a Percentage or ItemProgress signal of an install arrives
InstallProgress(t, percent, status) ==
    /\ t \in Running /\ t.pc = "install"
    /\ IF ProgressDelivered(percent)
       THEN Commit(SetMachines(Cur, CurrentKey(t),
                               [m \in Range(machines) |->
                                   UpdateProgress(m, percent, status)]),
                   load, checks)
       ELSE UNCHANGED vars

\* installUpdatesOnHost of an updateMachine resolves
InstallReturns(t, result) ==
    /\ t \in Running /\ t.pc = "install"
    /\ IF result.success
       THEN LET r1 == AddAlert(Without(t), "success")
                r2 == IF result.rebootRequired THEN AddAlert(r1, "warning") ELSE r1
            IN  Commit(RefreshStart(r2, t), load, checks)
       ELSE Commit(UpdateFails(Without(t), t), load, checks)

\* The dashboard over a registry that does not change and whose machines are
\* all connected: the buttons of the cards, the bulk operations over the
\* roster and the progress of the installs.
Next ==
    \/ \E k \in Keys : Refresh(k)
    \/ \E k \in Keys : Update(k)
    \/ RefreshAll
    \/ UpdateAll
    \/ \E u \in CountOutcomes : LoadCheckReturns(u)
    \/ \E k \in Keys, u \in CountOutcomes : EffectCheckReturns(k, u)
    \/ \E t \in Running, ok \in BOOLEAN : CacheReturns(t, ok)
    \/ \E t \in Running, u \in CountOutcomes : CheckReturns(t, u)
    \/ \E t \in Running, p \in Percents : InstallProgress(t, p, "Installing updates...")
    \/ \E t \in Running, res \in InstallResults : InstallReturns(t, res)

Spec == Init /\ [][Next]_vars

\* The same registry, with the selection: the checkboxes, the bulk operations
\* and the Update button of a card.
NextSelect ==
    \/ \E k \in Keys : Update(k)
    \/ RefreshAll
    \/ UpdateAll
    \/ UpdateSelected
    \/ \E k \in Keys, b \in BOOLEAN : HandleSelect(k, b)
    \/ \E b \in BOOLEAN : SelectAll(b)
    \/ \E u \in CountOutcomes : LoadCheckReturns(u)
    \/ \E k \in Keys, u \in CountOutcomes : EffectCheckReturns(k, u)
    \/ \E t \in Running, ok \in BOOLEAN : CacheReturns(t, ok)
    \/ \E t \in Running, u \in CountOutcomes : CheckReturns(t, u)
    \/ \E t \in Running, res \in InstallResults : InstallReturns(t, res)

SpecSelect == Init /\ [][NextSelect]_vars

\* The dashboard over a registry that changes: single-machine operations and
\* updateAll, interleaved with roster changes.
NextRoster ==
    \/ \E k \in Keys : Refresh(k)
    \/ \E k \in Keys : Update(k)
    \/ UpdateAll
    \/ \E newList \in HomeRosters :
           rosterChanges < MaxRosterChanges /\ RosterChange(newList)
    \/ \E p \in ProbeResults : ProbeReturns(p)
    \/ \E u \in CountOutcomes : LoadCheckReturns(u)
    \/ \E k \in Keys, u \in CountOutcomes : EffectCheckReturns(k, u)
    \/ \E t \in Running, ok \in BOOLEAN : CacheReturns(t, ok)
    \/ \E t \in Running, u \in CountOutcomes : CheckReturns(t, u)
    \/ \E t \in Running, res \in InstallResults : InstallReturns(t, res)

SpecRoster == InitRoster /\ [][NextRoster]_vars

\* ------------------------------------------------- outstanding operations
\* the installUpdatesOnHost calls for k that have not resolved
InstallsOutstanding(k) ==
    BagCardinality([t \in {u \in Running : u.pc = "install" /\ CurrentKey(u) = k}
                       |-> CopiesIn(t, tasks)])

\* the getUpdatesForHost calls for k that have not resolved: of refreshMachine,
\* of the auto-refresh effect and of loadMachines
ChecksOutstanding(k) ==
    BagCardinality([t \in {u \in Running : u.pc = "check" /\ CurrentKey(u) = k}
                       |-> CopiesIn(t, tasks)])
    + checks[k]
    + (IF load.pc = "check" /\ load.list[1].key = k THEN 1 ELSE 0)

\* ------------------------------------------------------------------ C1
\* C1: under every interleaving of update(k), updateAll and updateSelected,
\* no machine ever has two install operations outstanding at once.
C1_OneInstallPerMachine == \A k \in Keys : InstallsOutstanding(k) <= 1

\* ------------------------------------------------------------------ C2
\* C2: for every machine at most one check-or-install operation is
\* outstanding at any time, whichever of the initial load, a refresh, the
\* reconciliation or an install triggered it.
C2_OneOperationPerMachine ==
    \A k \in Keys : ChecksOutstanding(k) + InstallsOutstanding(k) <= 1

\* ------------------------------------------------------------------ C3
\* the steps of the tasks of one kind
Invoked(t, kind) == t.kind = kind /\ t.idx = 1 /\ CopiesIn(t, tasks) = 0

Leaves(t) == CopiesIn(t, tasks') < CopiesIn(t, tasks)

Completes(t) ==
    /\ Leaves(t)
    /\ \A t2 \in BagToSet(tasks') :
           t2.kind = t.kind /\ t2.list = t.list => CopiesIn(t2, tasks') <= CopiesIn(t2, tasks)

Advances(t, t2) ==
    /\ Leaves(t)
    /\ t2.kind = t.kind /\ t2.list = t.list /\ t2.idx = t.idx + 1
    /\ CopiesIn(t2, tasks') > CopiesIn(t2, tasks)

\* C3: updateAll installs on exactly the machines that, when it is invoked,
\* are connected, have total > 0 and are not updating; it visits them in
\* roster order and installs on no other machine.
C3_UpdateAllVisits ==
    [][/\ \A t \in BagToSet(tasks') :
              Invoked(t, "updateAll") /\ ~bulkUpdating =>
                  t.list = KeysIn(SelectSeq(machines,
                               LAMBDA m : /\ m.state = "connected"
                                          /\ m.total > 0
                                          /\ ~m.updating))
       /\ UpdateAll /\ (\A t \in BagToSet(tasks') : t.kind # "updateAll") =>
              /\ \A i \in DOMAIN machines :
                     ~(/\ machines[i].state = "connected"
                       /\ machines[i].total > 0
                       /\ ~machines[i].updating)
              /\ \A k \in Keys : InstallsOutstanding(k)' = InstallsOutstanding(k)
       /\ \A t \in Running :
              t.kind = "updateAll" =>
                  /\ t.calls = SubSeq(t.list, 1, t.idx)
                  /\ t.pc = "install" => InstallsOutstanding(t.list[t.idx]) >= 1
                  /\ Completes(t) => t.calls = t.list]_vars

\* updateAll is on the second machine of a roster of two, after the first
C3_Witness ==
    \E t \in Running :
        /\ t.kind = "updateAll" /\ t.pc = "install"
        /\ t.list = KeyOrder /\ t.idx = 2 /\ t.calls = KeyOrder

\* ------------------------------------------------------------------ C4
\* C4: when updateAll completes, every machine it visited has
\* updating = false, whatever other user action or roster change was
\* interleaved with it.
C4_NoneLeftUpdating ==
    [][\A t \in Running :
          t.kind = "updateAll" /\ Completes(t) =>
              \A i \in 1..Len(t.calls) :
                  HasKey(machines', t.calls[i]) =>
                      ~Find(machines', t.calls[i]).updating]_vars

\* C4, amended: when updateAll completes, every machine it visited has
\* updating = false, unless an update of that single machine, started from
\* its card, is still running.
C4_NoneLeftUpdatingByUpdateAll ==
    [][\A t \in Running :
          t.kind = "updateAll" /\ Completes(t) =>
              \A i \in 1..Len(t.calls) :
                  HasKey(machines', t.calls[i]) =>
                      \/ ~Find(machines', t.calls[i]).updating
                      \/ \E t2 \in BagToSet(tasks') :
                             t2.kind = "update" /\ CurrentKey(t2) = t.calls[i]]_vars

\* updateAll is about to complete on its last machine while the first one,
\* which it has left, is updated again from its card
C4_Witness ==
    \E t \in Running :
        /\ t.kind = "updateAll" /\ t.calls = KeyOrder /\ t.pc = "check"
        /\ \E t2 \in Running : t2.kind = "update" /\ CurrentKey(t2) = KeyOrder[1]
        /\ HasKey(machines, KeyOrder[1]) /\ Find(machines, KeyOrder[1]).updating
        /\ rosterChanges > 0

\* ------------------------------------------------------------------ C5
\* C5: updateSelected installs on exactly the machines of the SelectionSet
\* that are connected, have total > 0 and are not already updating, and the
\* SelectionSet is empty when it completes.
C5_UpdateSelectedVisits ==
    [][/\ \A t \in BagToSet(tasks') :
              Invoked(t, "updateSelected") /\ ~bulkUpdating =>
                  t.list = KeysIn(SelectSeq(machines,
                               LAMBDA m : /\ m.key \in selectedMachines
                                          /\ m.state = "connected"
                                          /\ m.total > 0
                                          /\ ~m.updating))
       /\ \A t \in Running :
              t.kind = "updateSelected" /\ Completes(t) =>
                  t.calls = t.list /\ selectedMachines' = {}]_vars

\* ------------------------------------------------------------------ C6
\* C6: every bulk operation processes its machines one at a time in roster
\* order and starts the operation on the next machine only after the one on
\* the previous machine has completed; refreshAll refreshes every machine
\* that is connected.
C6_OneAtATimeInOrder ==
    [][/\ \A t \in BagToSet(tasks') :
              Invoked(t, "refreshAll") =>
                  t.list = KeysIn(SelectSeq(machines, LAMBDA m : m.state = "connected"))
       /\ \A t \in BagToSet(tasks') :
              t.kind \in BulkKinds =>
                  /\ t.idx = Len(t.calls)
                  /\ \A i \in 1..t.idx : t.calls[i] = t.list[i]
                  /\ \A i, j \in 1..Len(t.list) :
                         i < j => \E a, b \in 1..Len(KeyOrder) :
                                     /\ a < b
                                     /\ KeyOrder[a] = t.list[i]
                                     /\ KeyOrder[b] = t.list[j]
       /\ \A t \in Running, t2 \in BagToSet(tasks') :
              t.kind \in BulkKinds /\ Advances(t, t2) =>
                  /\ t2.calls = Append(t.calls, t.list[t.idx + 1])
                  /\ HasKey(machines', t.list[t.idx]) =>
                         LET m == Find(machines', t.list[t.idx])
                         IN  IF t.kind \in UpdateKinds
                             THEN ~m.updating
                             ELSE ~m.loading]_vars

\* refreshAll is on the second machine of two, the first one refreshed
C6_Witness ==
    \E t \in Running :
        /\ t.kind = "refreshAll" /\ t.calls = KeyOrder
        /\ Len(machines) = 2
        /\ ~machines[1].loading /\ machines[2].loading

\* ------------------------------------------------------------------ C7
\* the per-machine operation of t ended in this step
Ends(t) ==
    /\ Leaves(t)
    /\ \A t2 \in BagToSet(tasks') :
           t2.kind = t.kind /\ t2.list = t.list /\ t2.idx = t.idx =>
               CopiesIn(t2, tasks') <= CopiesIn(t2, tasks)

\* C7: a failure of the operation on one machine of a bulk operation becomes
\* a state update or an alert, does not propagate, and the bulk operation
\* goes on with the remaining machines.
C7_FailuresContained ==
    [][\A t \in Running :
          t.kind \in BulkKinds /\ Ends(t) =>
              /\ unhandled' = FALSE
              /\ t.pc \in {"install", "cache"} => "danger" \in alerts'
              /\ t.pc = "cache" /\ HasKey(machines', CurrentKey(t)) =>
                     LET m == Find(machines', CurrentKey(t))
                     IN  m.error = "remote error" /\ ~m.loading
              /\ IF t.idx < Len(t.list)
                 THEN \E t2 \in BagToSet(tasks') : Advances(t, t2)
                 ELSE /\ Completes(t)
                      /\ t.kind \in UpdateKinds => ~bulkUpdating']_vars

\* a bulk operation is on its second machine after the first one failed
C7_Witness ==
    \E t \in Running :
        /\ t.kind \in BulkKinds /\ t.idx = 2
        /\ "danger" \in alerts /\ "success" \notin alerts
        /\ unhandled = FALSE

\* ------------------------------------------------------------------ C8
\* C8: when an install completes, with success or with failure, updating and
\* the progress of the machine are cleared first, and then a fresh check of
\* the machine is triggered.
C8_ClearedThenChecked ==
    [][\A t \in Running :
          t.pc = "install" /\ Leaves(t) /\ HasKey(machines', CurrentKey(t)) =>
              LET k == CurrentKey(t)
                  m == Find(machines', k)
              IN  /\ ~m.updating
                  /\ ~m.updateProgress.present
                  /\ \/ ChecksOutstanding(k)' > ChecksOutstanding(k)
                     \/ \E t2 \in BagToSet(tasks') :
                            /\ CurrentKey(t2) = k
                            /\ t2.pc \in {"probe", "cache"}
                            /\ CopiesIn(t2, tasks') > CopiesIn(t2, tasks)]_vars

\* ------------------------------------------------------------------ C9
\* C9: a machine has updating = true exactly when an install is outstanding
\* for it.
C9_UpdatingIffInstall ==
    \A i \in DOMAIN machines :
        machines[i].updating <=> InstallsOutstanding(machines[i].key) >= 1

\* ----------------------------------------------------------------- C10
\* C10: no machine ever has updating = true and updateInfo.loading = true at
\* the same time.
C10_UpdatingExcludesLoading ==
    \A i \in DOMAIN machines : ~(machines[i].updating /\ machines[i].loading)

\* ---------------------------------------- machines-api: getMachinesList
\* window.location.hostname ("": the page has no host name).
Hostnames == {"", "cockpit.example"}

\* The labels of this model in the order localeCompare puts them.  "5" stands
\* for the JSON number 5, a label that is no string: as the argument of
\* localeCompare it is converted to the string, as its receiver it has no such
\* method.
LabelOrder ==
    <<"", "10.0.0.5", "5", "cockpit.example", "db1", "localhost", "web">>

Rank(label) == CHOOSE i \in DOMAIN LabelOrder : LabelOrder[i] = label

\* A host the base or the overlay map does not name.
NoRecord ==
    [present |-> FALSE, key |-> "undefined", label |-> "undefined",
     state |-> "undefined", visible |-> "undefined"]

\* The records of the base map: any of key, label and state may be missing.
ContentRecords ==
    {NoRecord} \cup
    { [present |-> TRUE, key |-> k, label |-> l, state |-> st,
       visible |-> "undefined"] :
          k \in {"undefined", "localhost"}, l \in {"undefined", "", "db1", "5"},
          st \in {"undefined", "connected"} }

\* The records of the overlay map: none, one that hides the host, one that
\* renames it.
OverlayRecords ==
    { NoRecord,
      [NoRecord EXCEPT !.present = TRUE, !.visible = "false"],
      [NoRecord EXCEPT !.present = TRUE, !.label = "web"] }

NoDocument(kind) ==
    [kind |-> kind, content |-> [h \in Keys |-> NoRecord],
     overlay |-> [h \in Keys |-> NoRecord]]

\* the fallback roster: the local machine alone
LocalOnly(hostname) ==
    << [key |-> "localhost", address |-> "localhost",
        label |-> IF hostname = "" THEN "localhost" ELSE hostname,
        state |-> "connected", visible |-> "true"] >>

\* new Set([...Object.keys(content), ...Object.keys(overlay)])
AllHosts(doc) ==
    SelectSeq(KeyOrder, LAMBDA h : doc.content[h].present)
    \o SelectSeq(KeyOrder, LAMBDA h : ~doc.content[h].present
                                       /\ doc.overlay[h].present)

\* one property of { <defaults>, ...content[host], ...overlay[host] }
Spread(doc, host, field, default) ==
    IF doc.overlay[host].present /\ doc.overlay[host][field] # "undefined"
    THEN doc.overlay[host][field]
    ELSE IF doc.content[host].present /\ doc.content[host][field] # "undefined"
         THEN doc.content[host][field]
         ELSE default

MergedRecord(doc, host) ==
    [key |-> Spread(doc, host, "key", host),
     address |-> host,
     label |-> Spread(doc, host, "label", host),
     state |-> Spread(doc, host, "state", "undefined"),
     visible |-> Spread(doc, host, "visible", "undefined")]

IsLocalAlias(host) == host \in {"localhost", "localhost.localdomain"}

\* if (!machine.label) ...
DefaultLabel(machine, host, hostname) ==
    IF machine.label \in {"", "undefined"}
    THEN [machine EXCEPT !.label = IF IsLocalAlias(host) THEN hostname ELSE host]
    ELSE machine

\* the loop over allHosts
RECURSIVE VisibleMachines(_, _, _)
VisibleMachines(doc, hosts, hostname) ==
    IF hosts = << >> THEN << >>
    ELSE LET machine == MergedRecord(doc, Head(hosts))
             rest == VisibleMachines(doc, Tail(hosts), hostname)
         IN  IF machine.visible # "false"
             THEN <<DefaultLabel(machine, Head(hosts), hostname)>> \o rest
             ELSE rest

\* machines.sort((a, b) => a.label.localeCompare(b.label)): which element of a
\* pair the engine passes as a is its own choice (the element it inserts, or
\* the left one); the call throws when the label of a is no string
SortThrows(ms, pivotFirst) ==
    \E i \in DOMAIN ms :
        /\ ms[i].label = "5"
        /\ IF pivotFirst THEN i > 1 ELSE i < Len(ms)

\* the order the sort leaves: a stable sort by label
RECURSIVE SortByLabel(_)
SortByLabel(ms) ==
    IF ms = << >> THEN << >>
    ELSE LET sorted == SortByLabel(SubSeq(ms, 1, Len(ms) - 1))
             m == ms[Len(ms)]
         IN  SelectSeq(sorted, LAMBDA e : Rank(e.label) <= Rank(m.label))
             \o <<m>>
             \o SelectSeq(sorted, LAMBDA e : Rank(e.label) > Rank(m.label))

\* The catch of getMachinesList takes every exception of its body.
GetMachinesListRethrows == FALSE

GetMachinesListCatches == TRUE

\* getMachinesList(): what it returns, whether its catch ran, and whether the
\* exception left the function
GetMachinesList(value, hostname, pivotFirst) ==
    LET local == [raised |-> FALSE, caught |-> FALSE, list |-> LocalOnly(hostname)]
        thrown == IF GetMachinesListCatches
                  THEN [local EXCEPT !.caught = TRUE]
                  ELSE [raised |-> TRUE, caught |-> FALSE, list |-> << >>]
        found == VisibleMachines(value, AllHosts(value), hostname)
    IN  IF value.kind \in {"null", "empty"} THEN local
        ELSE IF value.kind \in {"malformed", "json null"}
        THEN thrown    \* JSON.parse(data) throws, or parsed.content does
        ELSE IF found = << >> THEN local
        ELSE IF SortThrows(found, pivotFirst) THEN thrown
        ELSE [local EXCEPT !.list = SortByLabel(found)]

NotRead == [raised |-> FALSE, caught |-> FALSE, list |-> << >>]

\* The dashboard is not mounted: only machines-api.ts runs.
Unmounted ==
    /\ machines = << >>
    /\ selectedMachines = {}
    /\ bulkUpdating = FALSE
    /\ alerts = {}
    /\ load = "idle"
    /\ tasks = EmptyBag
    /\ checks = ZeroChecks
    /\ unhandled = FALSE
    /\ rosterChanges = 0

\* A session in which the shell has stored no registry yet.
InitList ==
    /\ Unmounted
    /\ transaction = "idle"
    /\ probe = "idle"
    /\ \E hostname \in Hostnames :
           listing = [value |-> NoDocument("null"), hostname |-> hostname,
                      read |-> FALSE, result |-> NotRead]

\* the cockpit shell rewrites the registry: it removes the item, stores
\* something that is no document, or stores the records of one host
StoreRegistry(value) ==
    /\ value # listing.value
    /\ listing' = [listing EXCEPT !.value = value, !.read = FALSE,
                                  !.result = NotRead]
    /\ UNCHANGED <<dashboard, transaction, probe>>

\* a caller reads the roster
ReadRoster ==
    /\ ~listing.read
    /\ \E pivotFirst \in BOOLEAN :
           listing' = [listing EXCEPT
               !.read = TRUE,
               !.result = GetMachinesList(listing.value, listing.hostname,
                                          pivotFirst)]
    /\ UNCHANGED <<dashboard, transaction, probe>>

NextList ==
    \/ \E kind \in {"null", "empty", "malformed", "json null"} : StoreRegistry(NoDocument(kind))
    \/ \E host \in Keys, base \in ContentRecords, over \in OverlayRecords :
           StoreRegistry(
               [kind |-> "document",
                content |-> [listing.value.content EXCEPT ![host] = base],
                overlay |-> [listing.value.overlay EXCEPT ![host] = over]])
    \/ ReadRoster

SpecList == InitList /\ [][NextList]_vars

\* The roster that was read, when one was.
RosterRead == listing.read /\ ~listing.result.raised

\* ----------------------------------------------------------------- C11
\* C11: whatever the registry value is (absent, empty, malformed or well
\* formed), the roster readRoster returns contains the local machine.
C11_LocalMachineAlwaysListed ==
    RosterRead =>
        \E i \in DOMAIN listing.result.list : listing.result.list[i].key = "localhost"

\* ----------------------------------------------------------------- C12
\* C12: readRoster never raises; when the registry is absent or empty, or
\* when parsing or normalising it fails in any way, the roster it returns is
\* the single entry of the local machine.
C12_FallbackIsLocalOnly ==
    listing.read =>
        /\ ~listing.result.raised
        /\ (listing.value.kind \in {"null", "empty"} \/ listing.result.caught)
               => /\ Len(listing.result.list) = 1
                  /\ listing.result.list[1].key = "localhost"
                  /\ listing.result.list = LocalOnly(listing.hostname)

\* A document was parsed, two machines were collected and the sort threw on a
\* label that is no string: the local machine alone was returned.
C12_Witness ==
    /\ listing.read
    /\ listing.value.kind = "document"
    /\ listing.result.caught
    /\ listing.result.list = LocalOnly(listing.hostname)

\* ----------------------------------------------------------------- C13
\* C13: the roster readRoster returns has no two entries with the same key,
\* whatever fields the base and the overlay records carry.
C13_RosterKeysDistinct ==
    RosterRead =>
        \A i, j \in DOMAIN listing.result.list :
            listing.result.list[i].key = listing.result.list[j].key => i = j

\* ----------------------------------------------------------------- C14
\* C14: a visible host whose records, base and overlay merged, carry no
\* label is listed with the local host name as its label when it is one of
\* the aliases of the local machine, and with its host id otherwise.
C14_LabelDefaults ==
    (RosterRead /\ listing.value.kind = "document" /\ ~listing.result.caught) =>
        \A i \in DOMAIN listing.result.list :
            LET host == listing.result.list[i].address
                value == listing.value
            IN  ( /\ value.content[host].present \/ value.overlay[host].present
                  /\ Spread(value, host, "visible", "undefined") # "false"
                  /\ Spread(value, host, "label", "undefined") = "undefined" )
                => listing.result.list[i].label =
                       IF IsLocalAlias(host) THEN listing.hostname ELSE host

\* ------------------------------ machines-api: the PackageKit transactions
\* Largest number of signals one transaction emits.
MaxEvents == 4

\* Info codes of a Package signal (8: PK_INFO_ENUM_SECURITY).
PackageInfos == {5, 8}

\* Messages of a rejected call or of an ErrorCode signal ("": no message).
Messages ==
    {"", "remote error", "not-found", "org.freedesktop.DBus.Error.ServiceUnknown"}

\* err.message?.includes(part), over the messages above
Includes(msg, part) ==
    \/ msg = part
    \/ <<msg, part>> = <<"org.freedesktop.DBus.Error.ServiceUnknown",
                         "ServiceUnknown">>

Functions == {"check", "install", "refresh"}

NoResult ==
    [kind |-> "none", total |-> 0, security |-> 0, success |-> FALSE,
     rebootRequired |-> FALSE, error |-> "null"]

NotCalled ==
    [fn |-> "none", pc |-> "idle", queue |-> << >>, subs |-> {},
     promise |-> "none",
     updates |-> << >>, rebootRequired |-> FALSE, delivered |-> << >>,
     log |-> << >>, result |-> NoResult]

\* a catch that reports every failure by its message
CheckCatchKeepsMessage(msg) ==
    IF msg = "" THEN "Failed to check for updates" ELSE msg

\* the catch of getUpdatesForHost
CheckCatch(msg) ==
    IF Includes(msg, "not-found") \/ Includes(msg, "ServiceUnknown")
    THEN "PackageKit not available"
    ELSE IF msg = "" THEN "Failed to check for updates" ELSE msg

\* what the function returns, or throws, once its promise was rejected or an
\* earlier await threw: `result` with the error, { success: false, error },
\* or the exception itself
Failure(fn, msg) ==
    CASE fn = "check" ->
             [NoResult EXCEPT !.kind = "UpdateInfo", !.error = CheckCatch(msg)]
      [] fn = "install" ->
             [NoResult EXCEPT !.kind = "InstallResult",
                  !.error = IF msg = "" THEN "Failed to install updates" ELSE msg]
      [] fn = "refresh" -> [NoResult EXCEPT !.kind = "thrown", !.error = msg]

\* installUpdatesOnHost returning { success: true } without the exit code
SuccessForgetsReboot(t) ==
    CASE t.fn = "check" ->
             [NoResult EXCEPT
                  !.kind = "UpdateInfo",
                  !.total = Len(t.updates),
                  !.security = Len(SelectSeq(t.updates,
                                             LAMBDA u : u = "security"))]
      [] t.fn = "install" ->
             [NoResult EXCEPT !.kind = "InstallResult", !.success = TRUE]
      [] t.fn = "refresh" -> [NoResult EXCEPT !.kind = "void"]

\* what the function returns once its promise was resolved
Success(t) ==
    CASE t.fn = "check" ->
             [NoResult EXCEPT
                  !.kind = "UpdateInfo",
                  !.total = Len(t.updates),
                  !.security = Len(SelectSeq(t.updates,
                                             LAMBDA u : u = "security"))]
      [] t.fn = "install" ->
             [NoResult EXCEPT !.kind = "InstallResult", !.success = TRUE,
                              !.rebootRequired = t.rebootRequired]
      [] t.fn = "refresh" -> [NoResult EXCEPT !.kind = "void"]

\* a completion that every finished event runs again
ResolveEveryTime(t) ==
    [t EXCEPT !.promise = "resolved", !.pc = "returned",
              !.subs = IF t.fn = "check" THEN @ \ {"Package"} ELSE @,
              !.result = Success(t)]

\* resolve() of the completion promise, then the rest of the function
Resolve(t) ==
    IF t.promise # "pending" THEN t
    ELSE [t EXCEPT !.promise = "resolved", !.pc = "returned",
                   !.subs = IF t.fn = "check" THEN @ \ {"Package"} ELSE @,
                   !.result = Success(t)]

\* reject(new Error(msg)) of the completion promise, then the catch
Reject(t, msg) ==
    IF t.promise # "pending" THEN t
    ELSE [t EXCEPT !.promise = "rejected", !.pc = "returned",
                   !.result = Failure(t.fn, msg)]

\* the signals each function subscribes to
Subscriptions(fn) ==
    CASE fn = "check" -> {"Package", "Finished", "ErrorCode"}
      [] fn = "install" -> {"Percentage", "ItemProgress", "Finished", "ErrorCode"}
      [] fn = "refresh" -> {"Finished", "ErrorCode"}

\* the method call sent ahead of the subscriptions
RequestsCallFirst(fn) ==
    CASE fn = "check" -> <<"call", "Package", "Finished", "ErrorCode">>
      [] fn = "install" ->
             <<"call", "Percentage", "ItemProgress", "Finished", "ErrorCode">>
      [] fn = "refresh" -> <<"call", "Finished", "ErrorCode">>

\* What the function sends on the D-Bus channel once the transaction exists,
\* in the order of its statements: its subscriptions, then the method call.
Requests(fn) ==
    CASE fn = "check" -> <<"Package", "Finished", "ErrorCode", "call">>
      [] fn = "install" ->
             <<"Percentage", "ItemProgress", "Finished", "ErrorCode", "call">>
      [] fn = "refresh" -> <<"Finished", "ErrorCode", "call">>

Signal(member, num, text) == [member |-> member, num |-> num, text |-> text]

\* info === 8 taken for another code
SeverityOfWrongCode(info) == IF info = 5 THEN "security" ELSE "normal"

\* isSecurity ? "security" : "normal"
Severity(info) == IF info = 8 THEN "security" ELSE "normal"

\* The transaction, once its method was called, emits a signal: it is logged,
\* and the handler subscribed to it, if one still is, leaves the call as
\* `handled`.
Emit(signal, handled) ==
    /\ transaction.promise # "none"
    /\ transaction.pc \in {"waiting", "returned"}
    /\ Len(transaction.log) < MaxEvents
    /\ transaction' =
           [(IF signal.member \in transaction.subs THEN handled ELSE transaction)
                EXCEPT !.log = Append(transaction.log, signal)]
    /\ UNCHANGED <<dashboard, listing, probe>>

InitTransaction ==
    /\ Unmounted
    /\ listing = "idle"
    /\ probe = "idle"
    /\ transaction = NotCalled

\* getUpdatesForHost, installUpdatesOnHost or refreshPackageCache is called:
\* it runs up to the await of CreateTransaction
CallFunction(fn) ==
    /\ transaction.pc = "idle"
    /\ transaction' = [transaction EXCEPT !.fn = fn, !.pc = "creating"]
    /\ UNCHANGED <<dashboard, listing, probe>>

\* cockpit.dbus, CreateTransaction or transaction.wait() fails with msg, or
\* no transaction path comes back
CreateFails(msg) ==
    /\ transaction.pc = "creating"
    /\ transaction' = [transaction EXCEPT
                           !.pc = "returned",
                           !.result = Failure(transaction.fn, msg),
                           !.log = Append(@, Signal("CreateError", 0, msg))]
    /\ UNCHANGED <<dashboard, listing, probe>>

\* the transaction exists: the function subscribes, builds the completion
\* promise and calls GetUpdates, UpdatePackages or RefreshCache; its
\* requests are on the channel
Created ==
    /\ transaction.pc = "creating"
    /\ transaction' = [transaction EXCEPT !.pc = "sent",
                                          !.promise = "pending",
                                          !.queue = Requests(transaction.fn)]
    /\ UNCHANGED <<dashboard, listing, probe>>

\* the other end of the channel serves the next request: a subscription
\* takes effect, or the method starts and the transaction may emit
Serve ==
    /\ transaction.queue # << >>
    /\ transaction' =
           [transaction EXCEPT
               !.queue = Tail(@),
               !.subs = IF Head(transaction.queue) = "call"
                        THEN @ ELSE @ \cup {Head(transaction.queue)},
               !.pc = IF Head(transaction.queue) = "call" /\ @ = "sent"
                      THEN "waiting" ELSE @]
    /\ UNCHANGED <<dashboard, listing, probe>>

\* the method call itself is rejected: .catch(reject)
MethodFails(msg) ==
    /\ transaction.pc = "waiting"
    /\ Len(transaction.log) < MaxEvents
    /\ transaction' = [Reject(transaction, msg) EXCEPT
                           !.log = Append(@, Signal("MethodError", 0, msg))]
    /\ UNCHANGED <<dashboard, listing, probe>>

Package(info) ==
    /\ transaction.fn = "check"
    /\ Emit(Signal("Package", info, ""),
            [transaction EXCEPT !.updates = Append(@, Severity(info))])

Progress(member, percent) ==
    /\ transaction.fn = "install"
    /\ Emit(Signal(member, percent, ""),
            IF ProgressDelivered(percent)
            THEN [transaction EXCEPT !.delivered =
                      Append(@, [percent |-> percent,
                                 status |-> IF member = "Percentage"
                                            THEN "Installing updates..."
                                            ELSE "Updating $0..."])]
            ELSE transaction)

Finished(exitCode) ==
    /\ transaction.fn \in Functions
    /\ Emit(Signal("Finished", exitCode, ""),
            Resolve([transaction EXCEPT
                         !.subs = IF transaction.fn = "check"
                                  THEN @ \ {"Finished"} ELSE @,
                         !.rebootRequired = IF transaction.fn = "install"
                                            THEN exitCode = 1 ELSE @]))

ErrorCode(msg) ==
    /\ transaction.fn \in Functions
    /\ Emit(Signal("ErrorCode", 0, msg),
            Reject([transaction EXCEPT
                        !.subs = IF transaction.fn = "check"
                                 THEN @ \ {"ErrorCode"} ELSE @],
                   msg))

NextTransaction ==
    \/ \E fn \in Functions : CallFunction(fn)
    \/ \E msg \in Messages \cup {"Failed to create PackageKit transaction"} :
           CreateFails(msg)
    \/ Created
    \/ Serve
    \/ \E msg \in Messages : MethodFails(msg)
    \/ \E info \in PackageInfos : Package(info)
    \/ \E member \in {"Percentage", "ItemProgress"}, percent \in {-1, 50, 101} :
           Progress(member, percent)
    \/ \E exitCode \in {1, 2} : Finished(exitCode)
    \/ \E msg \in Messages : ErrorCode(msg)

SpecTransaction == InitTransaction /\ [][NextTransaction]_vars

\* The place in the log of the first event that decides the call: a failure
\* before the transaction runs, or the event that settles the completion
\* promise (0: none yet).
FirstTerminal ==
    LET ends == {i \in DOMAIN transaction.log :
                     transaction.log[i].member
                         \in {"CreateError", "Finished", "ErrorCode",
                              "MethodError"}}
    IN  IF ends = {} THEN 0 ELSE CHOOSE i \in ends : \A j \in ends : i <= j

\* The Package signals before place n of the log whose info code is in infos.
PackagesBefore(n, infos) ==
    {i \in 1..(n - 1) : /\ transaction.log[i].member = "Package"
                        /\ transaction.log[i].num \in infos}

\* ----------------------------------------------------------------- C15
\* C15: a check that ends with the finished event returns total = the number
\* of package events received before that event and security = the number of
\* those that carry info code 8; in every UpdateInfo the check returns,
\* security is at most total.
C15_CountsPackageEvents ==
    (transaction.fn = "check" /\ transaction.pc = "returned") =>
        /\ transaction.result.kind = "UpdateInfo"
        /\ transaction.result.security <= transaction.result.total
        /\ (FirstTerminal > 0 /\ transaction.log[FirstTerminal].member = "Finished")
               => /\ transaction.result.total =
                         Cardinality(PackagesBefore(FirstTerminal, PackageInfos))
                  /\ transaction.result.security =
                         Cardinality(PackagesBefore(FirstTerminal, {8}))

\* Three package events, one of them a security update, then finished.
C15_Witness ==
    /\ transaction.fn = "check"
    /\ transaction.pc = "returned"
    /\ Len(transaction.log) = 4
    /\ transaction.log[4].member = "Finished"
    /\ transaction.result.total = 3
    /\ transaction.result.security = 1

\* ----------------------------------------------------------------- C17
\* C17: an install whose transaction finishes before any error returns
\* success = true, with rebootRequired = true exactly when the finished event
\* carries exit code 1 and rebootRequired = false for every other exit code.
C17_RebootIffExitCodeOne ==
    ( /\ transaction.fn = "install"
      /\ transaction.pc = "returned"
      /\ FirstTerminal > 0
      /\ transaction.log[FirstTerminal].member = "Finished" ) =>
        /\ transaction.result.kind = "InstallResult"
        /\ transaction.result.success
        /\ transaction.result.rebootRequired
               <=> (transaction.log[FirstTerminal].num = 1)

\* The transaction finished with exit code 1 and emitted a second finished
\* event with another exit code afterwards: reboot required is reported.
C17_Witness ==
    /\ transaction.fn = "install"
    /\ transaction.pc = "returned"
    /\ FirstTerminal > 0
    /\ transaction.log[FirstTerminal] = Signal("Finished", 1, "")
    /\ \E i \in DOMAIN transaction.log :
           i > FirstTerminal /\ transaction.log[i] = Signal("Finished", 2, "")
    /\ transaction.result.success
    /\ transaction.result.rebootRequired

\* ----------------------------------------------------------------- C16
\* C16: a check that fails resolves with an UpdateInfo, never rejects; its
\* error is the 'not available' text when the failure says that the package
\* service is unknown or not found, and otherwise the message of the failure
\* (a generic text when it has none), which is never the 'not available' text.
C16_UnavailableIsTold ==
    ( /\ transaction.fn = "check"
      /\ transaction.pc = "returned"
      /\ FirstTerminal > 0
      /\ transaction.log[FirstTerminal].member # "Finished" ) =>
        LET msg == transaction.log[FirstTerminal].text
            error == transaction.result.error
        IN  /\ transaction.result.kind = "UpdateInfo"
            /\ IF msg \in {"not-found", "org.freedesktop.DBus.Error.ServiceUnknown"}
               THEN error = "PackageKit not available"
               ELSE /\ error # "PackageKit not available"
                    /\ error = IF msg = "" THEN "Failed to check for updates"
                               ELSE msg

\* CreateTransaction was rejected because nothing provides the service.
C16_Witness ==
    /\ transaction.fn = "check"
    /\ transaction.pc = "returned"
    /\ transaction.log = << Signal("CreateError", 0,
                                   "org.freedesktop.DBus.Error.ServiceUnknown") >>
    /\ transaction.result.error = "PackageKit not available"

C20_DeliveredPercentInRange ==
    transaction.fn = "install" =>
        \A i \in DOMAIN transaction.delivered :
            transaction.delivered[i].percent \in 0..100

\* ------------------------------- machines-api: checkMachineConnection
\* Seconds the model follows a probe for.
MaxSeconds == 12

\* The delay of the setTimeout, in seconds (10000 ms).
TimeoutSeconds == 10

NotProbing ==
    [host |-> "none", pc |-> "idle", channel |-> "none", timer |-> "none",
     promise |-> "none", result |-> "none", raised |-> FALSE, cause |-> "none",
     problem |-> "none", elapsed |-> 0]

\* resolve(value) of the promise the function returns: the first call
\* settles it and the caller receives the value
Settle(p, value) ==
    IF p.promise # "pending" THEN p
    ELSE [p EXCEPT !.promise = value, !.pc = "returned", !.result = value]

\* the listener of the channel's close event
CloseListener(p, problem) ==
    Settle([p EXCEPT !.timer = IF @ = "armed" THEN "cleared" ELSE @],
           IF problem # "" THEN "failed" ELSE "connected")

InitProbe ==
    /\ Unmounted
    /\ listing = "idle"
    /\ transaction = "idle"
    /\ probe = NotProbing

\* checkMachineConnection(host) is called: for "localhost" it returns at once;
\* otherwise cockpit.channel throws, or the channel is open, the timer armed
\* and the listener added
CheckMachineConnection(host, opens) ==
    /\ probe.pc = "idle"
    /\ probe' =
           IF host = "localhost"
           THEN [probe EXCEPT !.host = host, !.pc = "returned",
                              !.result = "connected", !.cause = "local"]
           ELSE IF ~opens
           THEN [probe EXCEPT !.host = host, !.pc = "returned",
                              !.result = "failed", !.cause = "open throws"]
           ELSE [probe EXCEPT !.host = host, !.pc = "waiting",
                              !.channel = "open", !.timer = "armed",
                              !.promise = "pending"]
    /\ UNCHANGED <<dashboard, listing, transaction>>

\* A second passes.  An armed timer does not let its delay go by.
Tick ==
    /\ probe.pc # "idle"
    /\ probe.elapsed < MaxSeconds
    /\ ~(probe.timer = "armed" /\ probe.elapsed = TimeoutSeconds)
    /\ probe' = [probe EXCEPT !.elapsed = @ + 1]
    /\ UNCHANGED <<dashboard, listing, transaction>>

\* The channel reports that it closed: by itself, or some time after
\* channel.close() was called.
ChannelClose(problem) ==
    /\ probe.channel \in {"open", "closing"}
    /\ probe' = CloseListener(
                    [probe EXCEPT
                         !.channel = "closed",
                         !.problem = problem,
                         !.cause = IF @ # "none" THEN @
                                   ELSE IF problem = "" THEN "clean close"
                                   ELSE "problem close"],
                    problem)
    /\ UNCHANGED <<dashboard, listing, transaction>>

\* The timer fires: channel.close(), then resolve("failed").  Whether
\* channel.close() runs the close listeners before it returns is up to the
\* cockpit library; when it does, they see a close without a problem.
TimerFires(synchronous) ==
    /\ probe.timer = "armed"
    /\ probe.elapsed = TimeoutSeconds
    /\ LET fired == [probe EXCEPT !.timer = "fired", !.cause = "timeout"]
           closed == IF synchronous
                     THEN CloseListener([fired EXCEPT !.channel = "closed",
                                                      !.problem = ""], "")
                     ELSE [fired EXCEPT !.channel = "closing"]
       IN  probe' = Settle(closed, "failed")
    /\ UNCHANGED <<dashboard, listing, transaction>>

NextProbe ==
    \/ \E host \in Keys \cup {"localhost.localdomain"}, opens \in BOOLEAN :
           CheckMachineConnection(host, opens)
    \/ Tick
    \/ \E problem \in {"", "no-host", "terminated"} : ChannelClose(problem)
    \/ \E synchronous \in BOOLEAN : TimerFires(synchronous)

SpecProbe == InitProbe /\ [][NextProbe]_vars

\* ----------------------------------------------------------------- C18
\* C18: a probe resolves once, without raising: to connected for the local
\* machine (no channel is opened) and when the channel closes without a
\* problem before the timeout; to failed when the channel closes with a
\* problem, when opening it throws and when the timeout comes first, whatever
\* close arrives afterwards.
C18_ProbeClassifies ==
    probe.pc = "returned" =>
        /\ ~probe.raised
        /\ probe.cause # "none"
        /\ probe.cause = "local" => probe.channel = "none"
        /\ probe.result = IF probe.cause \in {"local", "clean close"}
                          THEN "connected" ELSE "failed"

NextWatch ==
    \/ \E newList \in HomeRosters :
           rosterChanges < MaxRosterChanges /\ RosterChange(newList)
    \/ \E k \in Keys, selected \in BOOLEAN : HandleSelect(k, selected)
    \/ \E p \in ProbeResults : ProbeReturns(p)
    \/ \E u \in CountOutcomes : LoadCheckReturns(u)
    \/ \E k \in Keys, u \in CountOutcomes : EffectCheckReturns(k, u)

SpecWatch ==
    /\ InitRoster
    /\ [][NextWatch]_vars
    /\ WF_vars(\E p \in ProbeResults : ProbeReturns(p))
    /\ WF_vars(\E u \in CountOutcomes : LoadCheckReturns(u))
    /\ WF_vars(\E k \in Keys, u \in CountOutcomes : EffectCheckReturns(k, u))

\* C22: a machine whose connectivity is unknown, in the initial roster or
\* first appearing through a later roster change, is eventually probed: no
\* machine stays unknown forever.
C22_NoMachineStaysUnknown ==
    \A k \in Keys :
        (HasKey(machines, k) /\ Find(machines, k).state \in {"undefined", "unknown"})
            ~> (~HasKey(machines, k)
                \/ Find(machines, k).state \notin {"undefined", "unknown"})

C24_SelectionIsConnected ==
    \A k \in selectedMachines :
        HasKey(machines, k) /\ Find(machines, k).state = "connected"

\* ================================================================= C25
\* C25: when an install fails (the transaction cannot be created, or the
\* remote side sends an error event), the failure shows both as the error of
\* the machine's update information and as a danger alert.
C25_InstallFailureShowsTwice ==
    [][\A t \in Running :
          /\ t.pc = "install" /\ Leaves(t)
          /\ \A t2 \in BagToSet(tasks') :
                 ~(t2.kind = t.kind /\ t2.list = t.list /\ t2.idx = t.idx
                   /\ t2.pc # "install")
          /\ HasKey(machines', CurrentKey(t))
          => /\ "danger" \in alerts'
             /\ Find(machines', CurrentKey(t)).error # "null"]_vars

\* ================================================================= C26
\* ------------------------------------------------------ subscribeMachines
\* `listing` follows one watcher: the raw value of the registry, the value
\* the watcher saw last (lastData), whether it is subscribed (isActive), the
\* roster of the last call of its callback (delivered), which of its parts
\* made that call in the last step (by), and whether the watcher has run
\* since the registry was last written (settled).

\* currentData !== lastData
DiffersFromItself(currentData, lastData) == currentData # currentData

\* a poll that calls back at every tick
DiffersAlways(currentData, lastData) == TRUE

Differs(currentData, lastData) == currentData # lastData

\* No watcher yet; the shell has stored no registry.
InitSubscribe ==
    /\ Unmounted
    /\ transaction = "idle"
    /\ probe = "idle"
    /\ \E hostname \in Hostnames :
           listing = [value |-> NoDocument("null"), hostname |-> hostname,
                      lastData |-> NoDocument("null"), isActive |-> FALSE,
                      delivered |-> NotRead, by |-> "none", settled |-> FALSE]

\* subscribeMachines(callback): reads the raw value, registers the handler
\* and the timer, calls the callback with the current roster
SubscribeMachines ==
    /\ ~listing.isActive
    /\ \E pivotFirst \in BOOLEAN :
           listing' = [listing EXCEPT
               !.lastData = listing.value,
               !.isActive = TRUE,
               !.delivered = GetMachinesList(listing.value, listing.hostname,
                                             pivotFirst),
               !.by = "subscribe",
               !.settled = TRUE]
    /\ UNCHANGED <<dashboard, transaction, probe>>

\* this context writes the registry: no storage event is delivered
SetItem(value) ==
    /\ value # listing.value
    /\ listing' = [listing EXCEPT !.value = value, !.by = "none",
                                  !.settled = FALSE]
    /\ UNCHANGED <<dashboard, transaction, probe>>

\* another context writes the registry and the storage event reaches the
\* handler of the watcher
StorageHandler(newValue) ==
    /\ listing.isActive
    /\ newValue # listing.value
    /\ \E pivotFirst \in BOOLEAN :
           listing' = [listing EXCEPT
               !.value = newValue,
               !.lastData = newValue,
               !.delivered = GetMachinesList(newValue, listing.hostname,
                                             pivotFirst),
               !.by = "storage",
               !.settled = TRUE]
    /\ UNCHANGED <<dashboard, transaction, probe>>

\* a tick of the 2 s timer
PollInterval ==
    /\ listing.isActive
    /\ LET currentData == listing.value
       IN  IF Differs(currentData, listing.lastData)
           THEN \E pivotFirst \in BOOLEAN :
                    listing' = [listing EXCEPT
                        !.lastData = currentData,
                        !.delivered = GetMachinesList(currentData,
                                                      listing.hostname,
                                                      pivotFirst),
                        !.by = "poll",
                        !.settled = TRUE]
           ELSE listing' = [listing EXCEPT !.by = "none", !.settled = TRUE]
    /\ UNCHANGED <<dashboard, transaction, probe>>

\* the function subscribeMachines returned
Unsubscribe ==
    /\ listing.isActive
    /\ listing' = [listing EXCEPT !.isActive = FALSE, !.by = "none"]
    /\ UNCHANGED <<dashboard, transaction, probe>>

\* The registry goes through: no item, text that is no JSON, and documents
\* in which each host is either absent or listed as connected.
NextSubscribe ==
    \/ SubscribeMachines
    \/ PollInterval
    \/ Unsubscribe
    \/ \E kind \in {"null", "malformed"} :
           \/ SetItem(NoDocument(kind))
           \/ StorageHandler(NoDocument(kind))
    \/ \E host \in Keys,
          base \in {NoRecord, [NoRecord EXCEPT !.present = TRUE,
                                               !.state = "connected"]} :
           LET value == [kind |-> "document",
                         content |-> [listing.value.content EXCEPT ![host] = base],
                         overlay |-> listing.value.overlay]
           IN  SetItem(value) \/ StorageHandler(value)

SpecSubscribe == InitSubscribe /\ [][NextSubscribe]_vars

\* C26: when the raw value of the registry changes while a watcher is
\* subscribed and no storage event is delivered, the watcher has called the
\* callback with the roster of the new value by the end of the next tick of
\* its timer.
C26_PollDeliversTheRoster ==
    listing.isActive /\ listing.settled =>
        \E pivotFirst \in BOOLEAN :
            listing.delivered = GetMachinesList(listing.value, listing.hostname,
                                                pivotFirst)

\* a tick found a registry with two hosts and gave their roster to the callback
C26_Witness ==
    /\ listing.isActive /\ listing.settled
    /\ listing.by = "poll"
    /\ Len(listing.delivered.list) = 2

\* ================================================================= C27
\* C27: checkUpdates, installUpdates and refreshCache register every event
\* subscription before they invoke the operation that triggers the events:
\* while the operation runs every subscription of the function is in place,
\* and no event is emitted before the last subscription.
C27_SubscribedBeforeInvoked ==
    /\ transaction.pc = "waiting" => transaction.subs = Subscriptions(transaction.fn)
    /\ transaction.queue # << >> =>
           transaction.pc = "sent" /\ transaction.log = << >>

\* the install was invoked and its first progress event reached the caller
C27_Witness ==
    /\ transaction.fn = "install"
    /\ transaction.pc = "waiting"
    /\ Len(transaction.log) = 1
    /\ Len(transaction.delivered) = 1

\* ================================================================= C28
\* C28: when checkUpdates, installUpdates or refreshCache has returned, with
\* a result or with a failure, every subscription it registered has been
\* released: no subscription of a completed call remains.
C28_NoSubscriptionOutlivesTheCall ==
    transaction.pc = "returned" => transaction.subs = {}

\* ================================================================= C29
\* C29: whenever the connectivity of a machine becomes failed, by the result
\* of a probe or by a roster change, the error of its update information is
\* set to the 'not connected' message and loading is cleared.
C29_FailedShowsNotConnected ==
    [][\A k \in Keys :
          /\ HasKey(machines, k) /\ Find(machines, k).state # "failed"
          /\ HasKey(machines', k) /\ Find(machines', k).state = "failed"
          => /\ Find(machines', k).error = "Machine not connected"
             /\ ~Find(machines', k).loading]_vars

\* ================================================================= C30
\* C30: whenever the connectivity of a machine becomes connected from any
\* other state, an update check is triggered for it (loading becomes true
\* and a check is issued), unless a check of that machine is already in
\* flight, in which case no second check is started.
C30_ConnectedTriggersOneCheck ==
    [][\A k \in Keys :
          /\ HasKey(machines', k) /\ Find(machines', k).state = "connected"
          /\ ~(HasKey(machines, k) /\ Find(machines, k).state = "connected")
          => /\ Find(machines', k).loading
             /\ ChecksOutstanding(k)' =
                    IF ChecksOutstanding(k) > 0 THEN ChecksOutstanding(k) ELSE 1]_vars

\* ================================================================= C31
\* C31: on a new roster, every machine of both the old and the new roster
\* keeps its update state (counts, error, time of the last check, updating,
\* progress), except that loading is forced to true when its connectivity
\* changed to connected; every machine that newly appears has zero counts,
\* no error, and loading = true only if it is connected.
C31_MergeKeepsUpdateState ==
    [][rosterChanges' # rosterChanges =>
          \A i \in DOMAIN machines' :
              LET m2 == machines'[i]
              IN  IF HasKey(machines, m2.key)
                  THEN LET m1 == Find(machines, m2.key)
                       IN  /\ m2.total = m1.total /\ m2.security = m1.security
                           /\ m2.error = m1.error
                           /\ m2.lastChecked = m1.lastChecked
                           /\ m2.updating = m1.updating
                           /\ m2.updateProgress = m1.updateProgress
                           /\ m2.loading =
                                  IF m2.state = "connected" /\ m1.state # "connected"
                                  THEN TRUE ELSE m1.loading
                  ELSE /\ m2.total = 0 /\ m2.security = 0
                       /\ m2.error = "null" /\ m2.lastChecked = "null"
                       /\ ~m2.updating /\ m2.updateProgress = NoProgress
                       /\ m2.loading = (m2.state = "connected")]_vars

\* a machine whose updates were counted was marked failed by a roster change
\* and kept its counts
C31_Witness ==
    \E i \in DOMAIN machines :
        /\ machines[i].state = "failed"
        /\ machines[i].total > 0
        /\ machines[i].lastChecked = "date"

\* ================================================================= C32
\* C32: a tick of the watcher's timer calls the callback only when the raw
\* value of the registry differs from the value the watcher observed last,
\* by a tick or by a storage event: an unchanged value triggers no call, and
\* a change a storage event delivered is not delivered again by the next tick.
C32_PollCallsOnlyOnChange ==
    [][listing'.by = "poll" =>
          /\ listing.value # listing.lastData
          /\ listing'.lastData = listing.value]_vars

\* a tick of a subscribed watcher found the value it knew and made no call
C32_Witness ==
    /\ listing.isActive /\ listing.settled
    /\ listing.by = "none"
    /\ listing.lastData = listing.value
    /\ listing.value.kind = "document"

\* ================================================================= C33
\* C33: in refresh(k) on a connected machine the cache refresh of the
\* machine completes before any update check of the machine is issued; if
\* the cache refresh fails, that refresh issues no check, loading is cleared
\* and the error message is recorded on the machine.
C33_CacheRefreshedBeforeCheck ==
    [][/\ \A t \in BagToSet(tasks') :
              t.kind = "refresh" /\ t.pc = "cache" =>
                  ChecksOutstanding(CurrentKey(t))' <= ChecksOutstanding(CurrentKey(t))
       /\ \A t \in Running :
              /\ t.kind = "refresh" /\ t.pc = "cache" /\ Leaves(t)
              /\ [t EXCEPT !.pc = "check"] \notin BagToSet(tasks')
              /\ HasKey(machines', CurrentKey(t))
              => /\ ~Find(machines', CurrentKey(t)).loading
                 /\ Find(machines', CurrentKey(t)).error # "null"
                 /\ ChecksOutstanding(CurrentKey(t))' <=
                        ChecksOutstanding(CurrentKey(t))]_vars

\* ================================================================= C38
\* A registry of two machines in which the connectivity of 10.0.0.5 goes back
\* and forth while the user updates machines from their cards.  Every remote
\* call returns in the end: the probe and the check of loadMachines, the
\* checks of the effect for each machine, and the calls of an update.
NextFlap ==
    \/ \E k \in Keys : Update(k)
    \/ \E newList \in {r \in HomeRosters : Len(r) = 2} : RosterChange(newList)
    \/ \E p \in ProbeResults : ProbeReturns(p)
    \/ \E u \in CountOutcomes : LoadCheckReturns(u)
    \/ \E k \in Keys, u \in CheckOutcomes : EffectCheckReturns(k, u)
    \/ \E t \in Running, ok \in BOOLEAN : CacheReturns(t, ok)
    \/ \E t \in Running, u \in CountOutcomes : CheckReturns(t, u)
    \/ \E t \in Running, res \in InstallResults : InstallReturns(t, res)

SpecFlap ==
    /\ InitRoster
    /\ [][NextFlap]_vars
    /\ WF_vars(\E p \in ProbeResults : ProbeReturns(p))
    /\ WF_vars(\E u \in CountOutcomes : LoadCheckReturns(u))
    /\ \A k \in Keys : WF_vars(\E u \in CheckOutcomes : EffectCheckReturns(k, u))
    /\ WF_vars(\E t \in Running :
                   \/ \E ok \in BOOLEAN : CacheReturns(t, ok)
                   \/ \E u \in CountOutcomes : CheckReturns(t, u)
                   \/ \E res \in InstallResults : InstallReturns(t, res))

\* C38: provided every probe and every remote transaction terminates, no
\* machine stays with loading = true for ever, whatever installs and roster
\* changes interleave: once every remote call has returned and no operation
\* is running, no machine has loading = true.
C38_LoadingEnds ==
    tasks = EmptyBag /\ checks = ZeroChecks /\ load.pc = "done" =>
        \A i \in DOMAIN machines : ~machines[i].loading

\* ================================================================= C34
\* C34: the reconciliation pass issues an update check only for machines
\* that are connected, flagged loading and not updating; when such a check
\* returns, the update information of the machine is replaced by the
\* result, with loading = false, or on failure by an error with a fresh
\* time of the last check.
C34_ReconciliationChecks ==
    [][\A k \in Keys :
          /\ checks'[k] > checks[k] =>
                 /\ HasKey(machines', k)
                 /\ Find(machines', k).state = "connected"
                 /\ Find(machines', k).loading
                 /\ ~Find(machines', k).updating
          /\ checks'[k] < checks[k] /\ HasKey(machines, k) =>
                 /\ \E u \in CheckOutcomes :
                        Find(machines', k) = SetUpdates(Find(machines, k), u)
                 /\ ~Find(machines', k).loading
                 /\ Find(machines', k).lastChecked = "date"]_vars

\* a check of the effect failed and left its error on a machine while the
\* other machine is updating
C34_Witness ==
    /\ \E i \in DOMAIN machines :
           /\ machines[i].error = "PackageKit not available"
           /\ ~machines[i].loading /\ machines[i].lastChecked = "date"
    /\ \E i \in DOMAIN machines : machines[i].updating /\ machines[i].loading

\* ================================================================= C35
\* C35: for every machine the results of its update checks are applied in
\* the order the checks were issued: the result of a check issued earlier
\* never overwrites the update information a check issued later wrote.  The
\* check loadMachines issues at mount for the first machine of the roster is
\* issued before every other check of that machine: when it returns, no
\* other check has written the update information of the machine yet.
C35_ResultsInIssueOrder ==
    [][/\ load.pc = "check" /\ load' # load
       /\ Len(load.list) = Len(machines)
       /\ HasKey(machines, Head(load.list).key)
       => LET m == Find(machines, Head(load.list).key)
          IN  m.lastChecked = "null" \/ m.error # "null"]_vars

\* ================================================================= C36
\* The cards of a registry that does not change: the Check and Update buttons
\* of the cards, the probes and checks of loadMachines, the checks of the
\* effect, and the calls and progress events of the operations of a card.
NextCards ==
    \/ \E k \in Keys : Refresh(k)
    \/ \E k \in Keys : Update(k)
    \/ \E p \in ProbeResults : ProbeReturns(p)
    \/ \E u \in CountOutcomes : LoadCheckReturns(u)
    \/ \E k \in Keys, u \in CheckOutcomes : EffectCheckReturns(k, u)
    \/ \E t \in Running, ok \in BOOLEAN : CacheReturns(t, ok)
    \/ \E t \in Running, u \in CountOutcomes : CheckReturns(t, u)
    \/ \E t \in Running, p \in Percents : InstallProgress(t, p, "Installing updates...")
    \/ \E t \in Running, res \in InstallResults : InstallReturns(t, res)

SpecCards == InitRoster /\ [][NextCards]_vars

\* C36: a per-machine operation on key k (a probe result, a check result,
\* refresh(k), update(k), a progress event for k) changes only the record
\* whose key is k: the records of the other machines, the key set of the
\* roster and its order are unchanged by it.  The keys a step operates on are
\* the key of the call that started, resumed or received the event, the key
\* whose effect check resolved, and the keys the loop of loadMachines went
\* through in the step.
C36_OnlyItsOwnRecord ==
    [][LET moved == {t \in Running \cup BagToSet(tasks') :
                        CopiesIn(t, tasks) # CopiesIn(t, tasks')}
           event == /\ tasks' = tasks /\ load' = load
                    /\ \A k \in Keys : checks'[k] >= checks[k]
           touched ==
               {CurrentKey(t) : t \in moved}
               \cup {CurrentKey(t) : t \in {u \in Running : event /\ u.pc = "install"}}
               \cup {k \in Keys : checks'[k] < checks[k]}
               \cup {load.list[i].key : i \in {j \in DOMAIN load.list : load' # load}}
       IN  /\ KeysIn(machines') = KeysIn(machines)
           /\ \A i \in DOMAIN machines :
                  machines'[i] # machines[i] => machines[i].key \in touched]_vars

\* a progress event reached the card of one machine while the other machine
\* of the roster kept the counts of its check
C36_Witness ==
    /\ Len(machines) = 2
    /\ \E i, j \in DOMAIN machines :
           /\ i # j
           /\ machines[i].updating /\ machines[i].updateProgress.percent = 50
           /\ machines[j].lastChecked = "date" /\ ~machines[j].updating

\* ================================================================= C37
\* Updates from the cards and from the toolbar over a registry that does not
\* change; the user presses the button of a card while no operation runs.
\* Every remote call of an update returns in the end: the calls of an update
\* started from a card and the calls of a bulk update.
NextBulk ==
    \/ \E k \in Keys : tasks = EmptyBag /\ Update(k)
    \/ UpdateAll
    \/ \E u \in CountOutcomes : LoadCheckReturns(u)
    \/ \E k \in Keys, u \in CountOutcomes : EffectCheckReturns(k, u)
    \/ \E t \in Running, ok \in BOOLEAN : CacheReturns(t, ok)
    \/ \E t \in Running, u \in CountOutcomes : CheckReturns(t, u)
    \/ \E t \in Running, res \in {r \in InstallResults : ~r.rebootRequired} : InstallReturns(t, res)

CallReturns(kinds) ==
    \E t \in {u \in Running : u.kind \in kinds} :
        \/ \E ok \in BOOLEAN : CacheReturns(t, ok)
        \/ \E u \in CountOutcomes : CheckReturns(t, u)
        \/ \E res \in {r \in InstallResults : ~r.rebootRequired} : InstallReturns(t, res)

SpecBulk ==
    /\ Init /\ [][NextBulk]_vars
    /\ WF_vars(CallReturns(SingleKinds))
    /\ WF_vars(CallReturns(BulkKinds))

C39_BulkUpdatingWhileRunning ==
    /\ bulkUpdating <=> \E t \in Running : t.kind \in {"updateAll", "updateSelected"}
    /\ TasksOf(tasks, {"updateAll", "updateSelected"}) <= 1

\* an updateSelected whose first install failed is installing on the second
\* machine of its list, bulkUpdating still true
C39_Witness ==
    /\ bulkUpdating
    /\ "danger" \in alerts
    /\ \E t \in Running :
           t.kind = "updateSelected" /\ t.idx = 2 /\ t.pc = "install"

\* ================================================================= C40
\* The alert list with its keys.  `alerts` is here the list of AlertInfo
\* records in the order they were added; the key of an alert is made of the
\* value Date.now() had when it was added, in milliseconds.
\* Most alerts the list holds at a time.
MaxAlerts == 3

\* Last millisecond of the clock.
MaxClock == 3

\* Only the alerts of the dashboard: nothing else runs.
InitAlerts ==
    /\ machines = << >>
    /\ selectedMachines = {}
    /\ bulkUpdating = FALSE
    /\ alerts = << >>
    /\ load = "idle"
    /\ tasks = EmptyBag
    /\ checks = ZeroChecks
    /\ unhandled = FALSE
    /\ rosterChanges = 0
    /\ listing = "idle" /\ transaction = "idle" /\ probe = "idle"

\* addAlert(variant, title) when Date.now() is `now`
AddAlertInfo(list, variant, now) ==
    Append(list, [key |-> <<"alert-", now>>, variant |-> variant])

\* updateMachine: the install succeeded.  The success alert is added at
\* `now`, the reboot warning by the next statement, at `later`; the clock
\* does not run backwards: `now` is not before any alert on display.
UpdateSucceeded(now, later, rebootRequired) ==
    /\ \A i \in DOMAIN alerts : alerts[i].key[2] <= now
    /\ later \in {now, now + 1}
    /\ alerts' = IF rebootRequired
                 THEN AddAlertInfo(AddAlertInfo(alerts, "success", now),
                                   "warning", later)
                 ELSE AddAlertInfo(alerts, "success", now)
    /\ Len(alerts') <= MaxAlerts
    /\ UNCHANGED <<machines, selectedMachines, bulkUpdating, load, tasks, checks,
                   unhandled, rosterChanges, listing, transaction, probe>>

\* updateMachine or refreshMachine: catch
UpdateFailed(now) ==
    /\ \A i \in DOMAIN alerts : alerts[i].key[2] <= now
    /\ alerts' = AddAlertInfo(alerts, "danger", now)
    /\ Len(alerts') <= MaxAlerts
    /\ UNCHANGED <<machines, selectedMachines, bulkUpdating, load, tasks, checks,
                   unhandled, rosterChanges, listing, transaction, probe>>

\* removeAlert(key): the close button or the timeout of the alert with that key
RemoveAlert(key) ==
    /\ \E i \in DOMAIN alerts : alerts[i].key = key
    /\ alerts' = SelectSeq(alerts, LAMBDA a : a.key # key)
    /\ UNCHANGED <<machines, selectedMachines, bulkUpdating, load, tasks, checks,
                   unhandled, rosterChanges, listing, transaction, probe>>

NextAlerts ==
    \/ \E now \in 1..MaxClock, later \in 1..MaxClock, rebootRequired \in BOOLEAN :
           UpdateSucceeded(now, later, rebootRequired)
    \/ \E now \in 1..MaxClock : UpdateFailed(now)
    \/ \E now \in 1..MaxClock : RemoveAlert(<<"alert-", now>>)

SpecAlerts == InitAlerts /\ [][NextAlerts]_vars

\* C40: every alert of the alert list has an id distinct from the id of every
\* other alert of the list (so that dismissing or expiring one alert removes
\* that alert only), also when two alerts are raised at the same instant of
\* the clock, as the success alert and the reboot warning of one install.
C40_AlertIdsDistinct ==
    \A i, j \in DOMAIN alerts : i # j => alerts[i].key # alerts[j].key

====
